---- MODULE Spec2Model ----
(***************************************************************************)
(* Model of openapi_spec_models.utils: the two registry tables and the     *)
(* three annotation helpers unwrap_annotation, get_origin_or_inner_type    *)
(* and is_non_string_sequence, applied to type descriptors as the typing   *)
(* module builds them.                                                     *)
(***************************************************************************)
EXTENDS Integers, Sequences, FiniteSets, TLC

VARIABLES
    wrapper_type_set,           \* utils.py:30, module-level set
    instantiable_type_mapping,  \* utils.py:32-59, module-level dict
    annotation,                 \* the descriptor handed to the helpers
    op,                         \* the helper last invoked on it ("none" before any)
    result,                     \* what that invocation produced
    path,                       \* plugins.py:34, the constructor's path argument
    plugin,                     \* plugins.py:47-50, the plugin object's attributes
    query,                      \* plugins.py:76, the path asked of has_path
    answer,                     \* plugins.py:85, what has_path returned
    threads                     \* concurrent invocations of the helpers, one per thread

helper_vars == <<annotation, op, result>>
plugin_vars == <<path, plugin, query, answer>>

vars == <<wrapper_type_set, instantiable_type_mapping, annotation, op, result,
          path, plugin, query, answer, threads>>

----------------------------------------------------------------------------
(* Bounds of the descriptor universe. *)

\* Largest number of wrapper subscriptions applied around a core type.
MaxLayers == 3

\* Longest path string, in characters, and most paths given to one plugin.
MaxPathLen == 2
MaxPaths == 2

\* Largest number of wrapper subscriptions around a descriptor that is handed
\* to concurrent invocations.
MaxConcLayers == 2

\* Threads invoking the helpers at the same time.
Threads == {"t1", "t2"}

\* Extra arguments an Annotated[...] subscription may carry.
MetaArgs == {"a", "b"}

\* The argument tuples of one Annotated[...] subscription: one or two extras.
MetaTuples == {<<x>> : x \in MetaArgs} \cup {<<x, y>> : x, y \in MetaArgs}

----------------------------------------------------------------------------
(* Python values. *)

\* The None object, as an origin token.
None == "None"

\* The None object, as the value of a call.
NoneValue == [type |-> "NoneType"]

\* A 3-tuple (annotation, tuple(metadata), wrappers) as returned at line 136.
Triple(b, m, w) == [type |-> "tuple", base |-> b, metadata |-> m, wrappers |-> w]

\* A bool as the value of a call.
Bool(b) == [type |-> "bool", bool |-> b]

\* A type object or None as the value of a call (get_origin_or_inner_type).
Origin(o) == [type |-> "origin", origin |-> o]

\* A call that returned v / a call that ended by raising exception e.
Return(v) == [outcome |-> "return", value |-> v]
Raise(e) == [outcome |-> "raise", value |-> [type |-> "exception", exc |-> e]]

\* No call made yet.
NoResult == [outcome |-> "none", value |-> NoneValue]

\* Python truthiness of an origin: None is falsy, every type object is truthy.
Truthy(o) == o # None

----------------------------------------------------------------------------
(* The registry tables as written at load time. *)

WrapperTypeSetLiteral == {"Annotated", "Required", "NotRequired", "ReadOnly"}

InstantiableTypeMappingLiteral ==
    [k \in {"typing.AbstractSet", "typing.DefaultDict", "typing.Deque", "typing.Dict",
            "typing.FrozenSet", "typing.List", "typing.Mapping",
            "typing.MutableMapping", "typing.MutableSequence", "typing.MutableSet",
            "typing.Sequence", "typing.Set", "typing.Tuple",
            "abc.Mapping", "abc.MutableMapping", "abc.MutableSequence",
            "abc.MutableSet", "abc.Sequence", "abc.Set",
            "defaultdict", "deque", "dict", "frozenset", "list", "set", "tuple"} |->
        CASE k = "typing.AbstractSet" -> "set"
          [] k = "typing.DefaultDict" -> "defaultdict"
          [] k = "typing.Deque" -> "deque"
          [] k = "typing.Dict" -> "dict"
          [] k = "typing.FrozenSet" -> "frozenset"
          [] k = "typing.List" -> "list"
          [] k = "typing.Mapping" -> "dict"
          [] k = "typing.MutableMapping" -> "dict"
          [] k = "typing.MutableSequence" -> "list"
          [] k = "typing.MutableSet" -> "set"
          [] k = "typing.Sequence" -> "list"
          [] k = "typing.Set" -> "set"
          [] k = "typing.Tuple" -> "tuple"
          [] k = "abc.Mapping" -> "dict"
          [] k = "abc.MutableMapping" -> "dict"
          [] k = "abc.MutableSequence" -> "list"
          [] k = "abc.MutableSet" -> "set"
          [] k = "abc.Sequence" -> "list"
          [] k = "abc.Set" -> "set"
          [] k = "defaultdict" -> "defaultdict"
          [] k = "deque" -> "deque"
          [] k = "dict" -> "dict"
          [] k = "frozenset" -> "frozenset"
          [] k = "list" -> "list"
          [] k = "set" -> "set"
          [] k = "tuple" -> "tuple"]

----------------------------------------------------------------------------
(* Type descriptors.  A descriptor is a core type under a stack of wrapper *)
(* subscriptions, outermost first: [layers |-> <<layer, ...>>, core |-> c] *)
(* with layer = [kind |-> wrapper, meta |-> extra arguments].              *)

\* A core (non-wrapper) type object: what get_origin and isclass say of it.
Core(n, o, c) == [name |-> n, origin |-> o, isclass |-> c]

\* Plain classes: no generic origin, isclass is true.
PlainClasses ==
    {Core(n, None, TRUE) :
        n \in {"int", "str", "bytes", "dict", "defaultdict", "list", "tuple", "set",
               "frozenset", "deque", "abc.Sequence", "abc.Mapping"}}

\* Subscripted and bare typing aliases: a generic origin, not a class.
GenericAliases ==
    { Core("List[int]", "list", FALSE),
      Core("Sequence[int]", "abc.Sequence", FALSE),
      Core("Tuple[int, ...]", "tuple", FALSE),
      Core("Set[int]", "set", FALSE),
      Core("FrozenSet[int]", "frozenset", FALSE),
      Core("Deque[int]", "deque", FALSE),
      Core("AbstractSet[int]", "abc.Set", FALSE),
      Core("Dict[str, int]", "dict", FALSE),
      Core("Mapping[str, int]", "abc.Mapping", FALSE),
      Core("Dict[str, List[int]]", "dict", FALSE),
      Core("Optional[int]", "typing.Union", FALSE),
      Core("Iterable[int]", "abc.Iterable", FALSE),
      Core("typing.List", "list", FALSE) }

\* list[int] (types.GenericAlias): isinstance(list[int], type) is true on
\* Python 3.9 and 3.10 and false from 3.11 on, so isclass is either.
BuiltinAliases == {Core("list[int]", "list", c) : c \in BOOLEAN}

\* Objects that are neither a class nor a generic alias: a type variable T.
NonTypes == {Core("TypeVar T", None, FALSE)}

Cores == PlainClasses \cup GenericAliases \cup BuiltinAliases \cup NonTypes

\* A core type with no wrapper around it.
Plain(c) == [layers |-> <<>>, core |-> c]

\* Required[d], NotRequired[d], ReadOnly[d]: one more layer, no extras.
Marker(kind, d) == [d EXCEPT !.layers = <<[kind |-> kind, meta |-> <<>>]>> \o @]

\* Annotated[d, *meta]: typing flattens Annotated[Annotated[T, x], y] to
\* Annotated[T, x, y] (PEP 593, see the note at utils.py:118-120).
AnnotatedOf(d, meta) ==
    IF d.layers # <<>> /\ Head(d.layers).kind = "Annotated"
    THEN [d EXCEPT !.layers =
             <<[kind |-> "Annotated", meta |-> Head(d.layers).meta \o meta]>> \o Tail(@)]
    ELSE [d EXCEPT !.layers = <<[kind |-> "Annotated", meta |-> meta]>> \o @]

\* One wrapper subscription, as written in source: a marker, or Annotated with extras.
Subscriptions ==
    {[kind |-> k, meta |-> <<>>] : k \in {"Required", "NotRequired", "ReadOnly"}}
    \cup {[kind |-> "Annotated", meta |-> m] : m \in MetaTuples}

Subscribe(s, d) ==
    IF s.kind = "Annotated" THEN AnnotatedOf(d, s.meta) ELSE Marker(s.kind, d)

\* The descriptor built by subscribing recipe[Len], ..., recipe[1] (innermost
\* last in the list, so recipe[1] is the outermost subscription written).
RECURSIVE Build(_, _)
Build(recipe, c) ==
    IF recipe = <<>> THEN Plain(c)
    ELSE Subscribe(Head(recipe), Build(Tail(recipe), c))

Recipes == UNION {[1..n -> Subscriptions] : n \in 0..MaxLayers}

Descriptors == {Build(r, c) : r \in Recipes, c \in Cores}

----------------------------------------------------------------------------
(* The typing / inspect primitives the helpers call. *)

\* typing.get_origin: the wrapper kind of the outermost layer, else the
\* core's generic origin, else None.
get_origin(d) ==
    IF d.layers # <<>> THEN Head(d.layers).kind ELSE d.core.origin

\* typing_extensions.get_args of a wrapper descriptor: the carried type, then
\* the layer's extra arguments.  `carried` and `extras` split it the way
\* `annotation, *meta = get_args(annotation)` does.
carried(d) == [d EXCEPT !.layers = Tail(@)]
extras(d) == Head(d.layers).meta

\* inspect.isclass
isclass(d) == d.layers = <<>> /\ d.core.isclass

\* The classes of the model and, for each, the classes among them it is a
\* (real or registered virtual) subclass of.
Ancestors ==
    [c \in {"int", "str", "bytes", "dict", "defaultdict", "list", "tuple", "set",
            "frozenset", "deque", "abc.Sequence", "abc.MutableSequence",
            "abc.Mapping", "abc.MutableMapping", "abc.Set", "abc.MutableSet",
            "abc.Iterable"} |->
        CASE c = "str" -> {"str", "abc.Sequence"}
          [] c = "bytes" -> {"bytes", "abc.Sequence"}
          [] c = "dict" -> {"dict", "abc.MutableMapping", "abc.Mapping"}
          [] c = "defaultdict" ->
                {"defaultdict", "dict", "abc.MutableMapping", "abc.Mapping"}
          [] c = "list" -> {"list", "abc.MutableSequence", "abc.Sequence"}
          [] c = "tuple" -> {"tuple", "abc.Sequence"}
          [] c = "set" -> {"set", "abc.MutableSet", "abc.Set"}
          [] c = "frozenset" -> {"frozenset", "abc.Set"}
          [] c = "deque" -> {"deque", "abc.MutableSequence", "abc.Sequence"}
          [] c = "abc.MutableSequence" -> {"abc.MutableSequence", "abc.Sequence"}
          [] c = "abc.MutableMapping" -> {"abc.MutableMapping", "abc.Mapping"}
          [] c = "abc.MutableSet" -> {"abc.MutableSet", "abc.Set"}
          [] OTHER -> {c}]

\* A typing alias in the second argument of issubclass is tested through its
\* __origin__; a class stands for itself.
AliasOrigin(t) ==
    CASE t = "typing.Tuple" -> "tuple"
      [] t = "typing.List" -> "list"
      [] t = "typing.Set" -> "set"
      [] t = "typing.FrozenSet" -> "frozenset"
      [] t = "typing.Deque" -> "deque"
      [] t = "typing.Sequence" -> "abc.Sequence"
      [] OTHER -> t

\* The abstract base classes: their subclass test (ABCMeta) demands a class
\* as first argument.
AbstractBaseClasses ==
    {"abc.Sequence", "abc.MutableSequence", "abc.Mapping", "abc.MutableMapping",
     "abc.Set", "abc.MutableSet", "abc.Iterable"}

\* Objects of types.GenericAlias (list[int]): they forward __bases__ to
\* their origin, so the test against a builtin class walks (object,) and
\* answers False, and the test against an abstract base class raises.
BuiltinAliasNames == {"list[int]"}

\* issubclass(c, t) for one target t: "True", "False" or "TypeError".
\*  - c a class: by its ancestors; a typing alias t stands for its __origin__;
\*  - c a types.GenericAlias: see BuiltinAliasNames;
\*  - c a bare typing alias (typing.List): a typing alias t compares the two
\*    __origin__ classes, a class t raises;
\*  - c anything else (a subscripted typing alias, a type variable, a
\*    wrapper alias): raises.
issubclass_one(c, t) ==
    IF c \in DOMAIN Ancestors
    THEN IF AliasOrigin(t) \in Ancestors[c] THEN "True" ELSE "False"
    ELSE IF c \in BuiltinAliasNames
    THEN IF AliasOrigin(t) \in AbstractBaseClasses THEN "TypeError" ELSE "False"
    ELSE IF AliasOrigin(c) # c
    THEN IF AliasOrigin(t) # t
         THEN IF AliasOrigin(t) \in Ancestors[AliasOrigin(c)] THEN "True" ELSE "False"
         ELSE "TypeError"
    ELSE "TypeError"

\* issubclass(c, targets) for a tuple of targets: the targets are tried in
\* order; the first that answers True ends the call with True, the first
\* that raises ends it with TypeError.
RECURSIVE issubclass(_, _)
issubclass(c, targets) ==
    IF targets = <<>> THEN Return(Bool(FALSE))
    ELSE LET r == issubclass_one(c, Head(targets))
         IN  IF r = "TypeError" THEN Raise("TypeError")
             ELSE IF r = "True" THEN Return(Bool(TRUE))
             ELSE issubclass(c, Tail(targets))

\* The object `origin or annotation` denotes, as issubclass sees it: the
\* origin when truthy, else the annotation itself (its class name when it is
\* a bare core, the alias object otherwise).
ObjectName(d) == IF d.layers = <<>> THEN d.core.name ELSE "typing._GenericAlias"

----------------------------------------------------------------------------
(* utils.py:113-136 *)

\* A slip that keeps only the first extra argument of the layer.
unwrap_annotation_first_extra(a) ==
    IF get_origin(a) \in wrapper_type_set
    THEN Return(Triple(carried(a), SubSeq(extras(a), 1, 1), {get_origin(a)}))
    ELSE Return(NoneValue)

\* unwrap_annotation.  The return statement (line 136) is indented into the
\* body of the while loop (line 131): the first iteration returns, and when
\* the loop body never runs the function falls off its end and returns None.
unwrap_annotation(a) ==
    LET origin0 == get_origin(a)                            \* 128
        wrappers0 == {}                                     \* 129
        metadata0 == <<>>                                   \* 130
    IN  IF origin0 \in wrapper_type_set                     \* 131
        THEN LET wrappers1 == wrappers0 \cup {origin0}      \* 132
                 annotation1 == carried(a)                  \* 133
                 meta == extras(a)                          \* 133
                 metadata1 == metadata0 \o meta             \* 134
             IN  Return(Triple(annotation1, metadata1, wrappers1))   \* 136
        ELSE Return(NoneValue)

----------------------------------------------------------------------------
(* utils.py:95-110 *)

\* instantiable_type_mapping.get(origin, origin)
mapping_get(o) ==
    IF o \in DOMAIN instantiable_type_mapping THEN instantiable_type_mapping[o] ELSE o

\* get_origin_or_inner_type.  The return statement (line 110) is indented
\* into the `if` of line 105: with a non-wrapper origin the function falls
\* off its end and returns None.  Unpacking `inner, _, _` raises TypeError
\* when unwrap_annotation returned None.
RECURSIVE get_origin_or_inner_type(_)
get_origin_or_inner_type(a) ==
    LET origin0 == get_origin(a)                                    \* 104
    IN  IF origin0 \in wrapper_type_set                             \* 105
        THEN LET u == unwrap_annotation(a)                          \* 106
             IN  IF u.outcome = "raise" THEN u
                 ELSE IF u.value.type # "tuple" THEN Raise("TypeError")
                 ELSE LET inner == u.value.base
                          r == get_origin_or_inner_type(inner)      \* 109
                      IN  IF r.outcome = "raise" THEN r
                          ELSE Return(Origin(mapping_get(r.value.origin)))  \* 110
        ELSE Return(Origin(None))

----------------------------------------------------------------------------
(* utils.py:62-92 *)

\* The first argument of both issubclass calls: `origin or annotation`.
origin_or_annotation(o, a) == IF Truthy(o) THEN o ELSE ObjectName(a)

StrBytes == {"str", "bytes"}

\* The tuple (str, bytes) of line 75.
StrBytesTuple == <<"str", "bytes">>

\* The tuple of lines 77-89, in its written order.
SequenceTargets ==
    <<"typing.Tuple", "typing.List", "typing.Set", "typing.FrozenSet", "typing.Deque",
      "typing.Sequence", "list", "tuple", "deque", "set", "frozenset">>

\* A slip that omits the (str, bytes) exclusion.
subtype_test_no_exclusion(x) == issubclass(x, SequenceTargets)

\* Lines 75-90: `not issubclass(x, (str, bytes)) and issubclass(x, (...))`,
\* evaluated left to right with short circuit.
subtype_test(x) ==
    LET s == issubclass(x, StrBytesTuple)
    IN  IF s.outcome = "raise" THEN s
        ELSE IF s.value.bool THEN Return(Bool(FALSE))
        ELSE issubclass(x, SequenceTargets)

\* Lines 74-92: the try block; `except TypeError` returns False.
guarded_subtype_test(x) ==
    LET t == subtype_test(x)
    IN  IF t.outcome = "raise" /\ t.value.exc = "TypeError"
        THEN Return(Bool(FALSE))
        ELSE t

\* A slip that writes `or` for the `and` of line 72.
is_non_string_sequence_or_slip(a) ==
    LET o == get_origin_or_inner_type(a)
    IN  IF o.outcome = "raise" THEN o
        ELSE IF ~Truthy(o.value.origin) \/ ~isclass(a)
        THEN Return(Bool(FALSE))
        ELSE guarded_subtype_test(origin_or_annotation(o.value.origin, a))

\* is_non_string_sequence
is_non_string_sequence(a) ==
    LET o == get_origin_or_inner_type(a)                            \* 71
    IN  IF o.outcome = "raise" THEN o
        ELSE IF ~Truthy(o.value.origin) /\ ~isclass(a)              \* 72
        THEN Return(Bool(FALSE))                                    \* 73
        ELSE guarded_subtype_test(origin_or_annotation(o.value.origin, a))

----------------------------------------------------------------------------
(* plugins.py:28-85, OpenAPIRenderPlugin *)

\* A str is the sequence of its characters.
PathChars == {"a", "b"}
PathStrings == UNION {[1..n -> PathChars] : n \in 0..MaxPathLen}

\* The `path` argument: a str, or a list / tuple of str.
Str(s) == [type |-> "str", value |-> s]
SeqOf(kind, items) == [type |-> kind, items |-> items]
PathArguments ==
    {Str(s) : s \in PathStrings}
    \cup {SeqOf(k, items) : k \in {"list", "tuple"},
                            items \in UNION {[1..n -> PathStrings] : n \in 0..MaxPaths}}

\* No constructor call yet / no object yet.
NoArgument == [type |-> "none"]
NoPlugin == [constructed |-> FALSE]

\* list(x): the items of a list or tuple; of a str, its characters, each a
\* str of length one.
list_of(x) ==
    IF x.type = "str" THEN [i \in 1..Len(x.value) |-> <<x.value[i]>>] ELSE x.items

\* A slip that omits the isinstance(path, str) test of line 47.
init_paths_no_str_test(p) == list_of(p)

\* Line 47: [path] if isinstance(path, str) else list(path)
init_paths(p) == IF p.type = "str" THEN <<p.value>> ELSE list_of(p)

default_favicon == "_default_favicon"
default_style == "_default_style"
MediaTypes == {"text/html", "application/json"}

\* OpenAPIRenderPlugin.__init__ (lines 31-50)
OpenAPIRenderPlugin_init(p, media_type, favicon, style) ==
    [constructed |-> TRUE,
     paths |-> init_paths(p),           \* 47
     media_type |-> media_type,         \* 48
     favicon |-> favicon,               \* 49
     style |-> style]                   \* 50

\* OpenAPIRenderPlugin.has_path (line 85): path in self.paths
has_path(self, q) == Return(Bool(\E i \in DOMAIN self.paths : self.paths[i] = q))

----------------------------------------------------------------------------
(* The state machine: a descriptor is produced, and the helpers are invoked *)
(* on it in any order, any number of times.                                *)

IdleThread == [pc |-> "idle"]

Init ==
    /\ wrapper_type_set = WrapperTypeSetLiteral
    /\ instantiable_type_mapping = InstantiableTypeMappingLiteral
    /\ annotation \in Descriptors
    /\ op = "none"
    /\ result = NoResult
    /\ path = NoArgument
    /\ plugin = NoPlugin
    /\ query = <<>>
    /\ answer = NoResult
    /\ threads = [t \in Threads |-> IdleThread]

UnwrapAnnotation ==
    /\ op' = "unwrap_annotation"
    /\ result' = unwrap_annotation(annotation)
    /\ UNCHANGED <<wrapper_type_set, instantiable_type_mapping, annotation>>
    /\ UNCHANGED <<plugin_vars, threads>>

GetOriginOrInnerType ==
    /\ op' = "get_origin_or_inner_type"
    /\ result' = get_origin_or_inner_type(annotation)
    /\ UNCHANGED <<wrapper_type_set, instantiable_type_mapping, annotation>>
    /\ UNCHANGED <<plugin_vars, threads>>

IsNonStringSequence ==
    /\ op' = "is_non_string_sequence"
    /\ result' = is_non_string_sequence(annotation)
    /\ UNCHANGED <<wrapper_type_set, instantiable_type_mapping, annotation>>
    /\ UNCHANGED <<plugin_vars, threads>>

Next == UnwrapAnnotation \/ GetOriginOrInnerType \/ IsNonStringSequence

Spec == Init /\ [][Next]_vars

----------------------------------------------------------------------------
(* The state machine of a render plugin: it is constructed once, and        *)
(* has_path is then asked any number of times.                             *)

PluginInit ==
    /\ wrapper_type_set = WrapperTypeSetLiteral
    /\ instantiable_type_mapping = InstantiableTypeMappingLiteral
    /\ annotation = Plain(Core("int", None, TRUE))
    /\ op = "none"
    /\ result = NoResult
    /\ path = NoArgument
    /\ plugin = NoPlugin
    /\ query = <<>>
    /\ answer = NoResult
    /\ threads = [t \in Threads |-> IdleThread]

Construct ==
    /\ ~plugin.constructed
    /\ \E p \in PathArguments, m \in MediaTypes :
          /\ path' = p
          /\ plugin' = OpenAPIRenderPlugin_init(p, m, default_favicon, default_style)
    /\ UNCHANGED <<wrapper_type_set, instantiable_type_mapping, helper_vars,
                   query, answer, threads>>

HasPath ==
    /\ plugin.constructed
    /\ \E q \in PathStrings :
          /\ query' = q
          /\ answer' = has_path(plugin, q)
    /\ UNCHANGED <<wrapper_type_set, instantiable_type_mapping, helper_vars,
                   path, plugin, threads>>

PluginNext == Construct \/ HasPath

PluginSpec == PluginInit /\ [][PluginNext]_vars

----------------------------------------------------------------------------
(* What the descriptor under test is made of. *)

\* The core type with every wrapper layer removed.
InnermostType(d) == Plain(d.core)

\* The kinds of all wrapper layers of d.
LayerKinds(d) == {d.layers[i].kind : i \in DOMAIN d.layers}

\* The extra arguments of all layers of d, outermost layer first.
RECURSIVE ConcatMeta(_)
ConcatMeta(layers) ==
    IF layers = <<>> THEN <<>> ELSE Head(layers).meta \o ConcatMeta(Tail(layers))

\* The layers of d that carry extra arguments.
MetaLayers(d) == {i \in DOMAIN d.layers : d.layers[i].meta # <<>>}

\* The first non-wrapper generic origin of d, and what the table makes of it.
EffectiveOrigin(d) == d.core.origin
RegisteredKind(d) ==
    IF EffectiveOrigin(d) \in DOMAIN InstantiableTypeMappingLiteral
    THEN InstantiableTypeMappingLiteral[EffectiveOrigin(d)]
    ELSE None

Unwrapped == op = "unwrap_annotation" /\ result.outcome = "return"
ReturnedTriple == Unwrapped /\ result.value.type = "tuple"

----------------------------------------------------------------------------
(* Claims about unwrap_annotation. *)

\* C1: for every descriptor whose generic origin is not a recognized wrapper
\* kind, unwrap_annotation returns (d, (), set()): d verbatim, no metadata,
\* no wrappers.
C1_NonWrapperIdentity ==
    (op = "unwrap_annotation" /\ get_origin(annotation) \notin WrapperTypeSetLiteral)
        => result = Return(Triple(annotation, <<>>, {}))

\* C2: the base returned by unwrap_annotation never has a recognized wrapper
\* kind as its origin; it is the innermost non-wrapper type.
C2_BaseIsInnermost ==
    ReturnedTriple =>
        /\ get_origin(result.value.base) \notin WrapperTypeSetLiteral
        /\ result.value.base = InnermostType(annotation)

\* C3: for a descriptor with two or more nested wrapper layers, the wrappers
\* set returned is the set of the kinds of all layers and the base is the
\* innermost type.
C3_AllWrapperKinds ==
    (op = "unwrap_annotation" /\ Len(annotation.layers) >= 2) =>
        /\ ReturnedTriple
        /\ result.value.wrappers = LayerKinds(annotation)
        /\ result.value.base = InnermostType(annotation)

\* C4: for a descriptor with several layers each carrying extra arguments,
\* the metadata returned is the concatenation of every layer's extras,
\* outermost layer first; none is dropped.
C4_AllMetadataOuterFirst ==
    (op = "unwrap_annotation" /\ Cardinality(MetaLayers(annotation)) >= 2) =>
        /\ ReturnedTriple
        /\ result.value.metadata = ConcatMeta(annotation.layers)

\* C5: unwrap_annotation applied to the base it returned gives that same
\* base back with empty metadata and an empty wrapper set.
C5_IdempotentOnBase ==
    ReturnedTriple =>
        unwrap_annotation(result.value.base)
            = Return(Triple(result.value.base, <<>>, {}))

\* The case of C6: one Annotated layer with two extras around a plain type.
SingleAnnotatedPair ==
    /\ Len(annotation.layers) = 1
    /\ annotation.layers[1].kind = "Annotated"
    /\ Len(annotation.layers[1].meta) = 2

\* C6: a plain type in exactly one Annotated layer with extras (a, b) unwraps
\* to base = the plain type, metadata = (a, b) in that order, and
\* wrappers = {Annotated}.
C6_SingleAnnotated ==
    (op = "unwrap_annotation" /\ SingleAnnotatedPair) =>
        result = Return(Triple(InnermostType(annotation),
                               annotation.layers[1].meta, {"Annotated"}))

\* Annotated[int, "a", "b"] has been unwrapped to (int, ("a", "b"), {Annotated}).
C6_Witness ==
    /\ op = "unwrap_annotation"
    /\ annotation = AnnotatedOf(Plain(Core("int", None, TRUE)), <<"a", "b">>)
    /\ result = Return(Triple(Plain(Core("int", None, TRUE)), <<"a", "b">>,
                              {"Annotated"}))

----------------------------------------------------------------------------
(* Claims about get_origin_or_inner_type and is_non_string_sequence. *)

\* C7: get_origin_or_inner_type looks through all wrapper layers to the first
\* non-wrapper generic origin and returns the concrete kind the table gives
\* it when it is a key of the table, and None otherwise.
C7_RegisteredKindReturned ==
    op = "get_origin_or_inner_type" => result = Return(Origin(RegisteredKind(annotation)))

ArrayKinds == {"list", "set", "frozenset", "tuple", "deque"}

\* C8: for every parameterized descriptor whose effective origin is a
\* sequence, set, frozen-set, tuple or deque shape, bare or wrapped,
\* is_non_string_sequence returns True.
C8_SequenceShapesAreTrue ==
    (op = "is_non_string_sequence" /\ RegisteredKind(annotation) \in ArrayKinds)
        => result = Return(Bool(TRUE))

MappingClasses == {"dict", "defaultdict", "abc.Mapping", "abc.MutableMapping"}

\* The descriptors C9 speaks of: str and bytes, mappings (bare or
\* parameterized), plain scalars.
StringMappingOrScalar ==
    \/ annotation.core.name \in StrBytes
    \/ annotation.core.name \in MappingClasses
    \/ annotation.core.origin \in MappingClasses
    \/ annotation = Plain(Core("int", None, TRUE))

\* C9: is_non_string_sequence returns False for every descriptor denoting
\* str or bytes, every mapping descriptor, and every plain scalar type.
C9_StringsMappingsScalarsAreFalse ==
    (op = "is_non_string_sequence" /\ StringMappingOrScalar)
        => result = Return(Bool(FALSE))

\* is_non_string_sequence(str) has returned False.
C9_Witness ==
    /\ op = "is_non_string_sequence"
    /\ annotation = Plain(Core("str", None, TRUE))
    /\ result = Return(Bool(FALSE))

\* The subtype test of lines 75-90 fails: its subject passes isclass and is
\* no class (list[int] on Python 3.9 / 3.10).
SubtypeTestFails == isclass(annotation) /\ ObjectName(annotation) \notin DOMAIN Ancestors

\* C10: no helper ends by raising, and an unrecognized shape gives the
\* conservative value: for a non-wrapper descriptor unwrap_annotation gives
\* the "no wrapper detected" result (a triple whose wrapper set is empty),
\* get_origin_or_inner_type gives None for an unregistered generic origin,
\* and is_non_string_sequence gives False when nothing can be classified or
\* the subtype test itself fails.
C10_NeverRaisesConservativeValue ==
    /\ result.outcome # "raise"
    /\ (op = "unwrap_annotation" /\ get_origin(annotation) \notin WrapperTypeSetLiteral)
        => (result.value.type = "tuple" /\ result.value.wrappers = {})
    /\ (op = "get_origin_or_inner_type"
          /\ EffectiveOrigin(annotation) \notin DOMAIN InstantiableTypeMappingLiteral)
        => result = Return(Origin(None))
    /\ (op = "is_non_string_sequence"
          /\ (SubtypeTestFails \/ (EffectiveOrigin(annotation) = None /\ ~isclass(annotation))))
        => result = Return(Bool(FALSE))

----------------------------------------------------------------------------
(* Concurrent invocations.  Each thread runs one helper at a time; a step   *)
(* of a thread holds one access to a registry table, so that the accesses   *)
(* of different threads interleave in every order.                         *)

\* The descriptors handed to concurrent invocations.
ConcCores == {Core("list", None, TRUE), Core("List[int]", "list", FALSE)}
ConcSubscriptions ==
    {[kind |-> "Required", meta |-> <<>>], [kind |-> "Annotated", meta |-> <<"a">>]}
ConcDescriptors ==
    {Build(r, c) : r \in UNION {[1..n -> ConcSubscriptions] : n \in 0..MaxConcLayers},
                   c \in ConcCores}

Helpers == {"unwrap_annotation", "get_origin_or_inner_type", "is_non_string_sequence"}

\* A slip that writes setdefault for the get of line 110, storing the key.
table_after_setdefault(table, o) ==
    IF o \in DOMAIN table THEN table ELSE [k \in DOMAIN table \cup {o} |->
                                             IF k = o THEN o ELSE table[k]]

\* The table after instantiable_type_mapping.get(origin, origin): dict.get
\* stores nothing.
table_after_get(table, o) == table

\* Lines 72-92 of is_non_string_sequence, once line 71 has produced origin o.
classify_origin(o, a) ==
    IF ~Truthy(o) /\ ~isclass(a)                                    \* 72
    THEN Return(Bool(FALSE))                                        \* 73
    ELSE guarded_subtype_test(origin_or_annotation(o, a))           \* 74-92

\* A thread whose call of get_origin_or_inner_type (its own or the one of
\* line 71) has returned r: the helper ends, or lines 72-92 follow.
AfterOrigin(th, r) ==
    IF r.outcome = "raise" THEN [pc |-> "done", helper |-> th.helper, arg |-> th.arg, result |-> r]
    ELSE IF th.helper = "is_non_string_sequence"
    THEN [th EXCEPT !.pc = "inss_72", !.stack = <<>>, !.ret = r.value.origin]
    ELSE [pc |-> "done", helper |-> th.helper, arg |-> th.arg, result |-> r]

\* A frame of get_origin_or_inner_type has returned origin o to the frames
\* left on the stack: the caller resumes at line 110, or the call is over.
ReturnToCaller(th, rest, o) ==
    IF rest = <<>> THEN AfterOrigin(th, Return(Origin(o)))
    ELSE [th EXCEPT !.pc = "goi_110", !.stack = rest, !.ret = o]

\* A thread calls a helper on a descriptor.
Call(t) ==
    /\ threads[t].pc = "idle"
    /\ \E h \in Helpers, d \in ConcDescriptors :
          threads' = [threads EXCEPT ![t] =
              [pc |-> IF h = "unwrap_annotation" THEN "ua_131" ELSE "goi_105",
               helper |-> h, arg |-> d, stack |-> <<d>>, ret |-> None]]
    /\ UNCHANGED <<wrapper_type_set, instantiable_type_mapping, helper_vars, plugin_vars>>

\* unwrap_annotation called directly: its one test against wrapper_type_set
\* (line 131) and its return.
UnwrapStep(t) ==
    /\ threads[t].pc = "ua_131"
    /\ threads' = [threads EXCEPT ![t] =
           [pc |-> "done", helper |-> @.helper, arg |-> @.arg,
            result |-> unwrap_annotation(@.arg)]]
    /\ UNCHANGED <<wrapper_type_set, instantiable_type_mapping, helper_vars, plugin_vars>>

\* get_origin_or_inner_type, lines 104-105: the test of the top frame's
\* origin against wrapper_type_set; a non-wrapper origin falls off the end
\* of the function and returns None to the caller.
OriginTest(t) ==
    /\ threads[t].pc = "goi_105"
    /\ LET th == threads[t]
           a == Head(th.stack)
       IN  threads' = [threads EXCEPT ![t] =
               IF get_origin(a) \in wrapper_type_set
               THEN [th EXCEPT !.pc = "goi_106"]
               ELSE ReturnToCaller(th, Tail(th.stack), None)]
    /\ UNCHANGED <<wrapper_type_set, instantiable_type_mapping, helper_vars, plugin_vars>>

\* get_origin_or_inner_type, lines 106-109: unwrap_annotation (its test
\* against wrapper_type_set), the unpacking of its result, and the recursive
\* call on inner.
OriginUnwrap(t) ==
    /\ threads[t].pc = "goi_106"
    /\ LET th == threads[t]
           u == unwrap_annotation(Head(th.stack))
       IN  threads' = [threads EXCEPT ![t] =
               IF u.outcome = "raise" THEN AfterOrigin(th, u)
               ELSE IF u.value.type # "tuple" THEN AfterOrigin(th, Raise("TypeError"))
               ELSE [th EXCEPT !.pc = "goi_105", !.stack = <<u.value.base>> \o @]]
    /\ UNCHANGED <<wrapper_type_set, instantiable_type_mapping, helper_vars, plugin_vars>>

\* get_origin_or_inner_type, line 110: the lookup in
\* instantiable_type_mapping and the return to the caller.
OriginLookup(t) ==
    /\ threads[t].pc = "goi_110"
    /\ LET th == threads[t]
       IN  /\ threads' = [threads EXCEPT ![t] =
                  ReturnToCaller(th, Tail(th.stack), mapping_get(th.ret))]
           /\ instantiable_type_mapping' =
                  table_after_get(instantiable_type_mapping, th.ret)
    /\ UNCHANGED <<wrapper_type_set, helper_vars, plugin_vars>>

\* is_non_string_sequence, lines 72-92, on the origin line 71 produced.
Classify(t) ==
    /\ threads[t].pc = "inss_72"
    /\ threads' = [threads EXCEPT ![t] =
           [pc |-> "done", helper |-> @.helper, arg |-> @.arg,
            result |-> classify_origin(@.ret, @.arg)]]
    /\ UNCHANGED <<wrapper_type_set, instantiable_type_mapping, helper_vars, plugin_vars>>

\* The caller takes the result; the thread is free for its next call.
Finish(t) ==
    /\ threads[t].pc = "done"
    /\ threads' = [threads EXCEPT ![t] = IdleThread]
    /\ UNCHANGED <<wrapper_type_set, instantiable_type_mapping, helper_vars, plugin_vars>>

ConcNext ==
    \E t \in Threads :
        \/ Call(t)
        \/ UnwrapStep(t)
        \/ OriginTest(t)
        \/ OriginUnwrap(t)
        \/ OriginLookup(t)
        \/ Classify(t)
        \/ Finish(t)

\* Nothing is running and no plugin exists.
ConcInit == PluginInit

ConcSpec == ConcInit /\ [][ConcNext]_vars

----------------------------------------------------------------------------
(* Claim about plain classes. *)

\* The descriptor is a plain class: no wrapper, no generic origin, a class.
PlainClass ==
    /\ annotation.layers = <<>>
    /\ annotation.core.origin = None
    /\ annotation.core.name \in DOMAIN Ancestors

BareArrayClasses == {"list", "tuple", "set", "frozenset", "deque"}

\* C13 as stated: for a plain class, is_non_string_sequence is True for the
\* bare classes list, tuple, set, frozenset and deque and False for any
\* other plain class.
C13_OnlyBareArrayClasses ==
    (op = "is_non_string_sequence" /\ PlainClass)
        => result = Return(Bool(annotation.core.name \in BareArrayClasses))

\* The classes the subclass test of lines 75-90 accepts.
SequenceClasses == BareArrayClasses \cup {"abc.Sequence"}

\* C13 as amended: for a plain class, is_non_string_sequence is True exactly
\* when the class is a subclass of list, tuple, set, frozenset, deque or
\* collections.abc.Sequence and not of str or bytes: True for list, tuple,
\* set, frozenset, deque and also collections.abc.Sequence itself, False for
\* int, str, bytes, dict.
C13_SubclassOfSequenceShapes ==
    (op = "is_non_string_sequence" /\ PlainClass) =>
        result = Return(Bool(
            /\ Ancestors[annotation.core.name] \cap StrBytes = {}
            /\ Ancestors[annotation.core.name] \cap SequenceClasses # {}))

\* is_non_string_sequence(collections.abc.Sequence) has returned True.
C13_Witness ==
    /\ op = "is_non_string_sequence"
    /\ annotation = Plain(Core("abc.Sequence", None, TRUE))
    /\ result = Return(Bool(TRUE))

----------------------------------------------------------------------------
(* Claim about the render plugins. *)

\* The paths given at construction, in the order given.
GivenPaths == IF path.type = "str" THEN <<path.value>> ELSE path.items

\* C11: a plugin constructed with a single path string p stores paths == [p],
\* one constructed with a sequence of paths stores exactly those paths in
\* order, and thereafter has_path(q) is true exactly when q is one of the
\* paths given at construction.
C11_PathsAsGiven ==
    plugin.constructed =>
        /\ plugin.paths = GivenPaths
        /\ answer.outcome # "none" =>
              answer = Return(Bool(\E i \in DOMAIN GivenPaths : GivenPaths[i] = query))

\* A plugin built from the single string "ab" holds ["ab"] and has answered
\* has_path("ab") with True.
C11_Witness ==
    /\ path = Str(<<"a", "b">>)
    /\ plugin.constructed
    /\ plugin.paths = <<(<<"a", "b">>)>>
    /\ query = <<"a", "b">>
    /\ answer = Return(Bool(TRUE))

----------------------------------------------------------------------------
(* Claim about concurrent invocations. *)

\* What helper h returns for descriptor d when it runs alone.
RunAlone(h, d) ==
    CASE h = "unwrap_annotation" -> unwrap_annotation(d)
      [] h = "get_origin_or_inner_type" -> get_origin_or_inner_type(d)
      [] h = "is_non_string_sequence" -> is_non_string_sequence(d)

\* C12: under any interleaving of concurrent invocations of the three
\* helpers, wrapper_type_set and instantiable_type_mapping keep their
\* load-time contents, and every invocation returns what it returns when run
\* alone on the same descriptor.
C12_TablesFixedResultsAsAlone ==
    /\ wrapper_type_set = WrapperTypeSetLiteral
    /\ instantiable_type_mapping = InstantiableTypeMappingLiteral
    /\ \A t \in Threads :
          threads[t].pc = "done" =>
              threads[t].result = RunAlone(threads[t].helper, threads[t].arg)

\* Thread t1 has finished get_origin_or_inner_type on a wrapped descriptor
\* (so it has read both tables) while t2 is in the middle of an invocation.
C12_Witness ==
    /\ threads["t1"].pc = "done"
    /\ threads["t1"].helper = "get_origin_or_inner_type"
    /\ threads["t1"].arg.layers # <<>>
    /\ threads["t2"].pc \in {"goi_105", "goi_106", "goi_110", "inss_72"}

====
